---- MODULE Spec2Model ----
(***************************************************************************)
(* DoubleLoopCoordinator (idaes/apps/grid_integration/prescient_plugin.py) *)
(* as a state machine.  The state is what the callbacks read and write:    *)
(* the simulator's extension dictionary, the market instances handed to    *)
(* the callbacks, the operation statistics, the driver's clock, and the    *)
(* registrations made in prescient.plugins at construction.  Every         *)
(* callback is one action that runs the whole method body, statement by    *)
(* statement, with Python's exception propagation: the first statement     *)
(* that raises ends the call, and the statements before it keep their      *)
(* effects.                                                                *)
(***************************************************************************)
EXTENDS Integers, Sequences, FiniteSets, TLC

\* ------------------------------------------------------------------ bounds
MaxBids == 2        \* bid sets the bidder generates in one run
MaxHour == 1        \* the driver's clock visits the hours 0..MaxHour
MaxSced == 3        \* options.sced_horizon is 1..MaxSced in direct helper calls
MaxStat == 2        \* entries the tracker holds per statistic and generator

\* --------------------------------------------------------------- the world
Gens == {"G1", "G2"}
Paths == {"output"}
Hours == 0 .. MaxHour
Dates == {0, 1}
Contents == {1, 2}
PowerLevels == {0, 1}

\* Python's None, as a value of the extension dictionary and of the clock.
None == [kind |-> "None"]

\* self.bidder and self.tracker: the two objects handed to the constructor.
self_bidder == "bidder_object"
self_tracker == "tracker_object"

\* Names bound at module level; a bare name in a method body resolves here
\* (then builtins), never in the class body.
ModuleGlobals == {"Option", "prescient", "DoubleLoopCoordinator"}

NameDefined(name) == name \in ModuleGlobals

\* ----------------------------------------------------- Python dictionaries
\* extensions: a dictionary with string keys, a function on the keys present.
HasKey(d, k) == k \in DOMAIN d

SetItem(d, k, v) == [x \in (DOMAIN d) \cup {k} |-> IF x = k THEN v ELSE d[x]]

\* plugin_objects is iterated by .items(): an insertion-ordered dictionary,
\* a sequence of <<key, value>> pairs with distinct keys.
OKeys(od) == {od[i][1] : i \in 1 .. Len(od)}

OGet(od, k) == LET i == CHOOSE j \in 1 .. Len(od) : od[j][1] = k IN od[i][2]

OSetItem(od, k, v) ==
    IF k \in OKeys(od)
    THEN [i \in 1 .. Len(od) |-> IF od[i][1] = k THEN <<k, v>> ELSE od[i]]
    ELSE Append(od, <<k, v>>)

\* dict.setdefault(key, {}) on extensions: the dictionary after the call.
SetDefault(d, k, v) == IF HasKey(d, k) THEN d ELSE SetItem(d, k, v)

\* A {power: cost} dictionary and list(d.items()).
DictItems(d) == [i \in 1 .. Len(d.keys) |-> <<d.keys[i], d.val[d.keys[i]]>>]

\* ------------------------------------------------------------- bid sets
\* bids[t][generator]: the {power: cost} dictionary of bid set b.  The bidder
\* decides the numbers; "content" selects one of its possible answers.
BidCurve(b, t, g) ==
    LET base == 10 * b.content + t + (IF g = "G1" THEN 0 ELSE 5)
    IN  [keys |-> <<20, 100>>, val |-> [p \in {20, 100} |-> base + p]]

NewBids(serial, content) == [kind |-> "bids", serial |-> serial, content |-> content]

\* ------------------------------------------------------------- variables
VARIABLES registry, options, extensions, current_time, ruc_instance,
          sced_instance, observed, tracker, nbids, last, hist, direct

vars == <<registry, options, extensions, current_time, ruc_instance,
          sced_instance, observed, tracker, nbids, last, hist, direct>>

\* ------------------------------------------------------------ registration
OptionDests ==
    <<"track_ruc_signal", "track_sced_signal", "hybrid_tracking", "track_horizon",
      "bidding_generator", "bidding", "deviation_weight", "ramping_weight",
      "cost_weight", "rts_gmlc_data_dir", "price_forecast_file">>

Reg(hook, what) == [hook |-> hook, what |-> what]

_register_custom_commandline_options(r) ==
    r \o [i \in 1 .. Len(OptionDests) |-> Reg("commandline_option", OptionDests[i])]

\* The two object initializers registered in the other order.
Mut_register_initialization_callbacks(r) ==
    r \o << Reg("initialization", "initialize_customized_results"),
            Reg("initialization", "initialize_tracking_object"),
            Reg("initialization", "initialize_bidding_object") >>

_register_initialization_callbacks(r) ==
    r \o << Reg("initialization", "initialize_customized_results"),
            Reg("initialization", "initialize_bidding_object"),
            Reg("initialization", "initialize_tracking_object") >>

_register_before_ruc_solve_callbacks(r) ==
    Append(r, Reg("before_ruc_solve", "bid_into_DAM"))

_register_before_operations_solve_callbacks(r) ==
    Append(r, Reg("before_operations_solve", "bid_into_RTM"))

_register_after_operations_callbacks(r) ==
    Append(r, Reg("after_operations", "track_sced_signal"))

_register_update_operations_stats_callbacks(r) ==
    Append(r, Reg("update_operations_stats", "update_observed_thermal_dispatch"))

_register_after_ruc_activation_callbacks(r) ==
    Append(r, Reg("after_ruc_activation", "after_ruc_activation"))

_register_after_simulation_callback(r) ==
    Append(r, Reg("after_simulation", "write_plugin_results"))

register_callbacks(r) ==
    _register_after_simulation_callback(
    _register_after_ruc_activation_callbacks(
    _register_update_operations_stats_callbacks(
    _register_after_operations_callbacks(
    _register_before_operations_solve_callbacks(
    _register_before_ruc_solve_callbacks(
    _register_initialization_callbacks(
    _register_custom_commandline_options(r))))))))

\* The driver calls at a hook what is registered there.
Registered(hook, what) == \E i \in 1 .. Len(registry) : registry[i] = Reg(hook, what)

\* ------------------------------------------------- one callback invocation
\* The frame of a call: what the body can change (ext: extensions, ruc and
\* sced: the instance passed in, obs: ops_stats, trk: the tracker's records,
\* nbids: bid sets the bidder has produced), the collaborator calls made so
\* far, the value of the last expression and the exception raised, if any.
Frame(ruc, sced) ==
    [ext |-> extensions, ruc |-> ruc, sced |-> sced, obs |-> observed,
     trk |-> tracker, nbids |-> nbids, calls |-> <<>>, ret |-> None, exc |-> "none"]

Raise(s, e) == [s EXCEPT !.exc = e]

\* A call of method op on a collaborator.  The collaborator (env) decides
\* whether this call, the (Len(calls)+1)-th of the invocation, raises.
Collab(s, env, target, op, arg) ==
    IF s.exc # "none" THEN s
    ELSE LET failed == env.failAt = Len(s.calls) + 1
         IN  [s EXCEPT !.calls = Append(@, [target |-> target, op |-> op,
                                            arg |-> arg, raised |-> failed]),
                       !.exc = IF failed THEN "CollaboratorError" ELSE "none"]

\* extensions['plugin_objects'][key] can be evaluated without a KeyError.
HasPlugin(ext, key) ==
    HasKey(ext, "plugin_objects") /\ key \in OKeys(ext["plugin_objects"])

\* The market data the driver holds (simulator.data_manager.ruc_market_*,
\* sced_instance pg values): cleared dispatch per generator and hour.
RucDispatch(market, g, t) ==
    (IF market = "active" THEN 100 ELSE 200) + (IF g = "G1" THEN 0 ELSE 50) + t

ScedDispatch(g, i) == 300 + (IF g = "G1" THEN 0 ELSE 50) + i

\* ---------------------------------------------------------- initialization
CustomizedResultKeys ==
    {"Generator", "Date", "Hour", "State", "RUC Schedule", "SCED Schedule",
     "Power Output"}

\* A fresh extension dictionary: whatever was stored before is dropped.
Mut_initialize_customized_results(s) ==
    [s EXCEPT !.ext = [x \in {"customized_results"} |->
                          [k \in CustomizedResultKeys |-> <<>>]]]

initialize_customized_results(s) ==
    [s EXCEPT !.ext = SetItem(@, "customized_results",
                              [k \in CustomizedResultKeys |-> <<>>])]

\* A fresh dictionary instead of setdefault: the tracker's entry is lost.
Mut_initialize_bidding_object(s) ==
    [s EXCEPT !.ext = SetItem(@, "plugin_objects", << <<"bidder", self_bidder>> >>)]

initialize_bidding_object(s) ==
    LET ext1 == SetDefault(s.ext, "plugin_objects", <<>>)
    IN  [s EXCEPT !.ext = SetItem(ext1, "plugin_objects",
                                  OSetItem(ext1["plugin_objects"], "bidder", self_bidder))]

\* A fresh dictionary instead of setdefault: the bidder's entry is lost.
Mut_initialize_tracking_object(s) ==
    [s EXCEPT !.ext = SetItem(@, "plugin_objects", << <<"tracker", self_tracker>> >>)]

initialize_tracking_object(s) ==
    LET ext1 == SetDefault(s.ext, "plugin_objects", <<>>)
    IN  [s EXCEPT !.ext = SetItem(ext1, "plugin_objects",
                                  OSetItem(ext1["plugin_objects"], "tracker", self_tracker))]

\* ------------------------------------------------------ day-ahead bidding
CostCurve(values) ==
    [data_type |-> "cost_curve", cost_curve_type |-> "piecewise", values |-> values]

_pass_DA_bid_to_prescient(s, bids) ==
    LET gen_name == options.bidding_generator
        p_cost == [i \in 1 .. options.ruc_horizon |->
                      DictItems(BidCurve(bids, i - 1, gen_name))]
    IN  IF gen_name \notin DOMAIN s.ruc THEN Raise(s, "KeyError")
        ELSE [s EXCEPT !.ruc[gen_name].p_cost =
                 [data_type |-> "time_series",
                  values |-> [i \in 1 .. options.ruc_horizon |-> CostCurve(p_cost[i])]]]

\* No clamp at the end of the day: hour t is looked up as it is.
Mut_assemble_project_tracking_signal(hour) ==
    LET gen_name == options.bidding_generator
    IN  [i \in 1 .. options.sced_horizon |->
            RucDispatch("active", gen_name, hour + i - 1)]

assemble_project_tracking_signal(hour) ==
    LET gen_name == options.bidding_generator
    IN  [i \in 1 .. options.sced_horizon |->
            LET t == hour + i - 1
            IN  IF t >= 23 THEN RucDispatch("active", gen_name, 23)
                ELSE RucDispatch("active", gen_name, t)]

Stats == {"power", "shut_down", "start_up"}

\* clear_projection before the merge: the projection is gone when it is read.
Mut_get_full_projected_trajectory(s, env) ==
    LET gen_name == options.bidding_generator
        tr == OGet(s.ext["plugin_objects"], "tracker")
        s1 == Collab(s, env, tr, "clear_projection", [none |-> 0])
        full == [stat \in Stats |-> (gen_name :> s.trk.daily_stats[stat][gen_name])]
    IN  IF ~HasPlugin(s.ext, "tracker") THEN Raise(s, "KeyError")
        ELSE IF s1.exc # "none" THEN s1
        ELSE [s1 EXCEPT !.trk.projection = [stat \in Stats |-> [g \in Gens |-> <<>>]],
                        !.ret = full]

get_full_projected_trajectory(s, env) ==
    LET gen_name == options.bidding_generator
        tr == OGet(s.ext["plugin_objects"], "tracker")
        full == [stat \in Stats |->
                    (gen_name :> (s.trk.daily_stats[stat][gen_name]
                                  \o s.trk.projection[stat][gen_name]))]
        s1 == Collab(s, env, tr, "clear_projection", [none |-> 0])
    IN  IF ~HasPlugin(s.ext, "tracker") THEN Raise(s, "KeyError")
        ELSE IF s1.exc # "none" THEN s1
        ELSE [s1 EXCEPT !.trk.projection = [stat \in Stats |-> [g \in Gens |-> <<>>]],
                        !.ret = full]

RECURSIVE ProjectionLoop(_, _, _, _)
ProjectionLoop(s, env, tr, hour) ==
    IF hour >= 24 \/ s.exc # "none" THEN s
    ELSE IF ~NameDefined("assemble_project_tracking_signal") THEN Raise(s, "NameError")
    ELSE ProjectionLoop(
             Collab(s, env, tr, "pass_schedule_to_track",
                    [m |-> "clone", market_signals |-> assemble_project_tracking_signal(hour),
                     last_implemented_time_step |-> 0, hour |-> hour,
                     projection |-> TRUE]),
             env, tr, hour + 1)

project_tracking_trajectory(s, env, ruc_hour) ==
    IF ~HasPlugin(s.ext, "tracker") THEN Raise(s, "KeyError")
    ELSE LET tr == OGet(s.ext["plugin_objects"], "tracker")
             s1 == Collab(s, env, tr, "clone_tracking_model", [none |-> 0])
             s2 == ProjectionLoop(s1, env, tr, ruc_hour)
         IN  IF s2.exc # "none" THEN s2
             ELSE IF ~NameDefined("get_full_projected_trajectory") THEN Raise(s2, "NameError")
             ELSE get_full_projected_trajectory(s2, env)

\* bid_into_DAM, lines 329-343: up to and including bidder.update_model.
UpdateBiddingModel(s, env, ruc_hour) ==
    LET bidder == OGet(s.ext["plugin_objects"], "bidder")
        s1 == IF ~NameDefined("project_tracking_trajectory") THEN Raise(s, "NameError")
              ELSE project_tracking_trajectory(s, env, ruc_hour)
    IN  IF s1.exc # "none" THEN s1
        ELSE Collab(s1, env, bidder, "update_model",
                    [implemented_power_output |-> s1.ret["power"],
                     implemented_shut_down |-> s1.ret["shut_down"],
                     implemented_start_up |-> s1.ret["start_up"]])

\* A retry around stochastic_bidding: a failed call is made once more.
Mut_GenerateBids(s, env, is_first_day, ruc_date) ==
    LET bidder == OGet(s.ext["plugin_objects"], "bidder")
        s1 == Collab(s, env, bidder, "stochastic_bidding", [date |-> ruc_date])
        s2 == IF s1.exc = "none" THEN s1
              ELSE Collab([s1 EXCEPT !.exc = "none"], env, bidder, "stochastic_bidding",
                          [date |-> ruc_date])
        bids == NewBids(s.nbids + 1, env.content)
    IN  IF s2.exc # "none" THEN s2
        ELSE [s2 EXCEPT !.nbids = @ + 1,
                        !.ret = bids,
                        !.ext = IF is_first_day
                                THEN SetItem(SetItem(@, "current_bids", bids), "next_bids", bids)
                                ELSE SetItem(@, "next_bids", bids)]

\* bid_into_DAM, lines 345-351: generate the bids and store them.
GenerateBids(s, env, is_first_day, ruc_date) ==
    LET bidder == OGet(s.ext["plugin_objects"], "bidder")
        s1 == Collab(s, env, bidder, "stochastic_bidding", [date |-> ruc_date])
        bids == NewBids(s.nbids + 1, env.content)
    IN  IF s1.exc # "none" THEN s1
        ELSE [s1 EXCEPT !.nbids = @ + 1,
                        !.ret = bids,
                        !.ext = IF is_first_day
                                THEN SetItem(SetItem(@, "current_bids", bids), "next_bids", bids)
                                ELSE SetItem(@, "next_bids", bids)]

bid_into_DAM(s, env, ruc_date, ruc_hour) ==
    LET is_first_day == current_time = None
    IN  IF ~HasPlugin(s.ext, "bidder") THEN Raise(s, "KeyError")
        ELSE LET s1 == IF ~is_first_day THEN UpdateBiddingModel(s, env, ruc_hour) ELSE s
                 s2 == IF s1.exc # "none" THEN s1
                       ELSE GenerateBids(s1, env, is_first_day, ruc_date)
             IN  IF s2.exc # "none" THEN s2
                 ELSE IF ~NameDefined("_pass_DA_bid_to_prescient") THEN Raise(s2, "NameError")
                 ELSE _pass_DA_bid_to_prescient(s2, s2.ret)

\* ------------------------------------------------------ real-time bidding
pass_RT_bid_to_prescient(s, bids, hour) ==
    LET gen_name == options.bidding_generator
    IN  IF gen_name \notin DOMAIN s.sced THEN Raise(s, "KeyError")
        ELSE IF bids = None THEN Raise(s, "TypeError")
        ELSE [s EXCEPT !.sced[gen_name].p_cost =
                 CostCurve(DictItems(BidCurve(bids, hour, gen_name)))]

bid_into_RTM(s) ==
    IF current_time = None THEN Raise(s, "AttributeError")
    ELSE IF ~HasKey(s.ext, "current_bids") THEN Raise(s, "KeyError")
    ELSE IF ~NameDefined("pass_RT_bid_to_prescient") THEN Raise(s, "NameError")
    ELSE pass_RT_bid_to_prescient(s, s.ext["current_bids"], current_time.hour)

\* ---------------------------------------------------------------- tracking
\* The pending market is read at hour t, not at t % 24.
Mut_assemble_sced_tracking_market_signals(env, hour) ==
    LET gen_name == options.bidding_generator
        Signal(i) ==
            LET t == hour + i - 1
            IN  IF i = 1 THEN ScedDispatch(gen_name, 0)
                ELSE IF t > 23 /\ env.pending THEN RucDispatch("pending", gen_name, t)
                ELSE IF t > 23 /\ ~env.pending THEN ScedDispatch(gen_name, t - hour)
                ELSE RucDispatch("active", gen_name, t)
    IN  [i \in 1 .. (IF options.sced_horizon >= 1 THEN options.sced_horizon ELSE 1)
            |-> Signal(i)]

assemble_sced_tracking_market_signals(env, hour) ==
    LET gen_name == options.bidding_generator
        Signal(i) ==
            LET t == hour + i - 1
            IN  IF i = 1 THEN ScedDispatch(gen_name, 0)
                ELSE IF t > 23 /\ env.pending THEN RucDispatch("pending", gen_name, t % 24)
                ELSE IF t > 23 /\ ~env.pending THEN ScedDispatch(gen_name, t - hour)
                ELSE RucDispatch("active", gen_name, t)
    IN  [i \in 1 .. (IF options.sced_horizon >= 1 THEN options.sced_horizon ELSE 1)
            |-> Signal(i)]

track_sced_signal(s, env) ==
    IF current_time = None THEN Raise(s, "AttributeError")
    ELSE IF ~HasPlugin(s.ext, "tracker") THEN Raise(s, "KeyError")
    ELSE IF ~NameDefined("assemble_sced_tracking_market_signals") THEN Raise(s, "NameError")
    ELSE Collab(s, env, OGet(s.ext["plugin_objects"], "tracker"), "pass_schedule_to_track",
                [m |-> "model",
                 market_signals |->
                     assemble_sced_tracking_market_signals(env, current_time.hour),
                 last_implemented_time_step |-> 0,
                 date |-> current_time.date, hour |-> current_time.hour])

\* The delivered power is written for every generator of ops_stats.
Mut_update_observed_thermal_dispatch(s, env) ==
    IF ~HasPlugin(s.ext, "tracker") THEN Raise(s, "KeyError")
    ELSE LET g == options.bidding_generator
             s1 == Collab(s, env, OGet(s.ext["plugin_objects"], "tracker"),
                          "get_last_delivered_power", [generator |-> g])
         IN  IF s1.exc # "none" THEN s1
             ELSE [s1 EXCEPT !.ret = [level |-> env.level],
                             !.obs = [x \in DOMAIN s.obs |-> env.level]]

update_observed_thermal_dispatch(s, env) ==
    IF ~HasPlugin(s.ext, "tracker") THEN Raise(s, "KeyError")
    ELSE LET g == options.bidding_generator
             s1 == Collab(s, env, OGet(s.ext["plugin_objects"], "tracker"),
                          "get_last_delivered_power", [generator |-> g])
         IN  IF s1.exc # "none" THEN s1
             ELSE [s1 EXCEPT !.ret = [level |-> env.level],
                             !.obs = SetItem(@, g, env.level)]

\* -------------------------------------------------------------- activation
\* next_bids is cleared before it is copied.
Mut_after_ruc_activation_ClearFirst(s) ==
    IF ~HasKey(s.ext, "next_bids") THEN Raise(s, "KeyError")
    ELSE [s EXCEPT !.ext = SetItem(SetItem(@, "next_bids", None), "current_bids", None)]

\* next_bids is copied and not cleared.
Mut_after_ruc_activation_KeepNext(s) ==
    IF ~HasKey(s.ext, "next_bids") THEN Raise(s, "KeyError")
    ELSE [s EXCEPT !.ext = SetItem(@, "current_bids", s.ext["next_bids"])]

after_ruc_activation(s) ==
    IF ~HasKey(s.ext, "next_bids") THEN Raise(s, "KeyError")
    ELSE [s EXCEPT !.ext = SetItem(SetItem(@, "current_bids", s.ext["next_bids"]),
                                   "next_bids", None)]

\* ----------------------------------------------------------- final results
RECURSIVE WriteLoop(_, _, _)
WriteLoop(s, env, items) ==
    IF items = <<>> \/ s.exc # "none" THEN s
    ELSE WriteLoop(Collab(s, env, Head(items)[2], "write_results",
                          [path |-> options.output_directory]),
                   env, Tail(items))

\* Only the first stored object is written.
Mut_write_plugin_results(s, env) ==
    IF ~HasKey(s.ext, "plugin_objects") THEN Raise(s, "KeyError")
    ELSE WriteLoop(s, env, SubSeq(s.ext["plugin_objects"], 1, 1))

write_plugin_results(s, env) ==
    IF ~HasKey(s.ext, "plugin_objects") THEN Raise(s, "KeyError")
    ELSE WriteLoop(s, env, s.ext["plugin_objects"])

\* ------------------------------------------------------------- the machine
\* A market instance as the driver hands it over: the generators' own costs.
DriverCost(g) == CostCurve(<< <<0, 0>> >>)

FreshInstance == [g \in Gens |-> [p_cost |-> DriverCost(g)]]

DriverLevel == 9

\* The options of a run: either generator bids, with a short or a long horizon.
Options ==
    UNION { { [bidding_generator |-> "G1", ruc_horizon |-> 1, sced_horizon |-> 1,
               output_directory |-> path],
              [bidding_generator |-> "G2", ruc_horizon |-> 2, sced_horizon |-> 2,
               output_directory |-> path] } : path \in Paths }

\* The time steps of the run: the hours 0..MaxHour of its first date.
Times == {[kind |-> "time", date |-> 0, hour |-> h] : h \in Hours}

Later(t, u) ==
    IF t = None THEN TRUE
    ELSE IF u.date = t.date THEN u.hour > t.hour ELSE u.date > t.date

\* Counting none, one, more than one.
Count(n) == IF n < 2 THEN n + 1 ELSE 2

\* Observers of the run (no callback reads them): which initialization
\* callbacks have run; whether bid_into_DAM has been invoked, and how often
\* since the last activation; the activation events so far; whether the run
\* so far follows the driver's lifecycle (one bid_into_DAM before each
\* activation, the first of them on the first day and only that one); the
\* bid sets generated since the last activation event (awaiting), the bid
\* sets an activation event has made current_bids (promoted), and whether
\* some activation event made current a bid set that an earlier one had
\* already made current (twice).  The lifecycle starts with initialization:
\* a bid_into_DAM before the bidder and the tracker are stored breaks it.
HistInit ==
    [ranInit |-> {}, anyDam |-> FALSE, sinceAct |-> 0, acts |-> 0, lifecycle |-> TRUE,
     awaiting |-> {}, promoted |-> {}, twice |-> FALSE]

\* direct: the last call made on a method that is no callback (a helper of
\* the coordinator, a method of the tracker), with its arguments and outcome.
\* No such call is made while the driver runs the callbacks.
NoCall == [method |-> "none"]

Init ==
    /\ registry = register_callbacks(<<>>)
    /\ options \in Options
    /\ extensions = <<>>
    /\ current_time = None
    /\ ruc_instance = FreshInstance
    /\ sced_instance = FreshInstance
    /\ observed = [g \in Gens |-> DriverLevel]
    /\ tracker = [daily_stats |-> [stat \in Stats |-> [g \in Gens |-> <<>>]],
                  projection |-> [stat \in Stats |-> [g \in Gens |-> <<>>]]]
    /\ nbids = 0
    /\ last = [cb |-> "__init__", exc |-> "none", calls |-> <<>>,
               first_day |-> TRUE, ruc_date |-> 0, ret |-> None]
    /\ hist = HistInit
    /\ direct = NoCall

\* The call returns (or raises) and the driver goes on with the frame's world.
Return(cb, s, ruc_date) ==
    /\ extensions' = s.ext
    /\ ruc_instance' = s.ruc
    /\ sced_instance' = s.sced
    /\ observed' = s.obs
    /\ tracker' = s.trk
    /\ nbids' = s.nbids
    /\ last' = [cb |-> cb, exc |-> s.exc, calls |-> s.calls,
                first_day |-> (current_time = None), ruc_date |-> ruc_date,
                ret |-> s.ret]
    /\ UNCHANGED <<registry, options, current_time, direct>>

Here == Frame(ruc_instance, sced_instance)

NoEnv == [failAt |-> 0, content |-> 1, level |-> 0, pending |-> FALSE]

InitializeCustomizedResults ==
    /\ Registered("initialization", "initialize_customized_results")
    /\ Return("initialize_customized_results", initialize_customized_results(Here), 0)
    /\ UNCHANGED hist

InitializeBiddingObject ==
    /\ Registered("initialization", "initialize_bidding_object")
    /\ Return("initialize_bidding_object", initialize_bidding_object(Here), 0)
    /\ hist' = [hist EXCEPT !.ranInit = @ \cup {"bidder"}]

InitializeTrackingObject ==
    /\ Registered("initialization", "initialize_tracking_object")
    /\ Return("initialize_tracking_object", initialize_tracking_object(Here), 0)
    /\ hist' = [hist EXCEPT !.ranInit = @ \cup {"tracker"}]

BidIntoDAM ==
    /\ Registered("before_ruc_solve", "bid_into_DAM")
    /\ nbids < MaxBids
    /\ \E failAt \in 0 .. 1, content \in Contents, ruc_date \in Dates, ruc_hour \in Hours :
          Return("bid_into_DAM",
                 bid_into_DAM(Frame(FreshInstance, sced_instance),
                              [NoEnv EXCEPT !.failAt = failAt, !.content = content],
                              ruc_date, ruc_hour),
                 ruc_date)
    /\ hist' = [hist EXCEPT
                  !.anyDam = TRUE,
                  !.sinceAct = Count(@),
                  !.lifecycle = @ /\ hist.sinceAct = 0
                                  /\ ((current_time = None) <=> ~hist.anyDam)
                                  /\ {"bidder", "tracker"} \subseteq hist.ranInit,
                  !.awaiting = @ \cup (nbids + 1 .. nbids')]

BidIntoRTM ==
    /\ Registered("before_operations_solve", "bid_into_RTM")
    /\ Return("bid_into_RTM", bid_into_RTM(Frame(ruc_instance, FreshInstance)), 0)
    /\ UNCHANGED hist

TrackScedSignal ==
    /\ Registered("after_operations", "track_sced_signal")
    /\ \E failAt \in 0 .. 1, pending \in BOOLEAN :
          Return("track_sced_signal",
                 track_sced_signal(Frame(ruc_instance, FreshInstance),
                                   [NoEnv EXCEPT !.failAt = failAt, !.pending = pending]),
                 0)
    /\ UNCHANGED hist

UpdateObservedThermalDispatch ==
    /\ Registered("update_operations_stats", "update_observed_thermal_dispatch")
    /\ \E failAt \in 0 .. 1, level \in PowerLevels :
          Return("update_observed_thermal_dispatch",
                 update_observed_thermal_dispatch(
                     Here, [NoEnv EXCEPT !.failAt = failAt, !.level = level]),
                 0)
    /\ UNCHANGED hist

AfterRucActivation ==
    /\ Registered("after_ruc_activation", "after_ruc_activation")
    /\ Return("after_ruc_activation", after_ruc_activation(Here), 0)
    /\ LET s == after_ruc_activation(Here)
           made == IF s.exc = "none" /\ s.ext["current_bids"] # None
                   THEN s.ext["current_bids"].serial ELSE 0
       IN  hist' = [hist EXCEPT
                      !.sinceAct = 0,
                      !.acts = Count(@),
                      !.lifecycle = @ /\ hist.sinceAct = 1,
                      !.awaiting = {},
                      !.promoted = @ \cup (IF made = 0 THEN {} ELSE {made}),
                      !.twice = @ \/ made \in hist.promoted]

WritePluginResults ==
    /\ Registered("after_simulation", "write_plugin_results")
    /\ \E failAt \in 0 .. 2 :
          Return("write_plugin_results",
                 write_plugin_results(Here, [NoEnv EXCEPT !.failAt = failAt]), 0)
    /\ UNCHANGED hist

\* The driver's clock: None until the first time step, then forward only.
AdvanceTime ==
    /\ \E t \in Times : Later(current_time, t) /\ current_time' = t
    /\ last' = [cb |-> "time_step", exc |-> "none", calls |-> <<>>,
                first_day |-> FALSE, ruc_date |-> 0, ret |-> None]
    /\ UNCHANGED <<registry, options, extensions, ruc_instance, sced_instance,
                   observed, tracker, nbids, hist, direct>>

Next ==
    \/ InitializeCustomizedResults
    \/ InitializeBiddingObject
    \/ InitializeTrackingObject
    \/ BidIntoDAM
    \/ BidIntoRTM
    \/ TrackScedSignal
    \/ UpdateObservedThermalDispatch
    \/ AfterRucActivation
    \/ WritePluginResults
    \/ AdvanceTime

Spec == Init /\ [][Next]_vars

\* ------------------------------------------- the helpers, called directly
\* The helper methods are public methods of the coordinator: besides being
\* reached from the callbacks they can be called on the object, with the
\* options and the simulator as arguments.  SpecDirect is the coordinator
\* after the initialization callbacks (or before them), a tracker holding up
\* to MaxStat entries per statistic, and such calls at any hour of the day.
HoursPerDay == 24

DayHours == 0 .. HoursPerDay - 1

DirectOptions ==
    {[bidding_generator |-> g, ruc_horizon |-> 1, sced_horizon |-> h,
      output_directory |-> path] : g \in Gens, h \in 1 .. MaxSced, path \in Paths}

\* The tracker's records: nd implemented and np projected entries per
\* statistic and generator, every entry a different number.
StatEntry(record, stat, g, i) ==
    (IF record = "daily_stats" THEN 1000 ELSE 2000)
    + (CASE stat = "power" -> 100 [] stat = "shut_down" -> 200 [] OTHER -> 300)
    + (IF g = "G1" THEN 0 ELSE 50) + i

TrackerRecords(nd, np) ==
    [daily_stats |-> [stat \in Stats |-> [g \in Gens |->
                         [i \in 1 .. nd |-> StatEntry("daily_stats", stat, g, i)]]],
     projection |-> [stat \in Stats |-> [g \in Gens |->
                         [i \in 1 .. np |-> StatEntry("projection", stat, g, i)]]]]

\* extensions after the three initialization callbacks.
InitializedExtensions ==
    initialize_tracking_object(
        initialize_bidding_object(
            initialize_customized_results([ext |-> <<>>]))).ext

InitDirect ==
    /\ registry = register_callbacks(<<>>)
    /\ options \in DirectOptions
    /\ extensions \in {<<>>, InitializedExtensions}
    /\ current_time = None
    /\ ruc_instance = FreshInstance
    /\ sced_instance = FreshInstance
    /\ observed = [g \in Gens |-> DriverLevel]
    /\ tracker \in {TrackerRecords(nd, np) : nd \in 0 .. MaxStat, np \in 0 .. MaxStat}
    /\ nbids = 0
    /\ last = [cb |-> "__init__", exc |-> "none", calls |-> <<>>,
               first_day |-> TRUE, ruc_date |-> 0, ret |-> None]
    /\ hist = HistInit
    /\ direct = NoCall

\* A direct call returns (or raises): its arguments and outcome are recorded.
DirectReturn(method, args, s, ret) ==
    /\ direct' = [method |-> method, args |-> args, exc |-> s.exc,
                  calls |-> s.calls, ret |-> ret]
    /\ extensions' = s.ext
    /\ tracker' = s.trk
    /\ UNCHANGED <<registry, options, current_time, ruc_instance, sced_instance,
                   observed, nbids>>

\* The driver's callbacks are not running: their record stays as it is.
DirectAssembleProjectTrackingSignal ==
    /\ \E hour \in DayHours :
          DirectReturn("assemble_project_tracking_signal", [hour |-> hour], Here,
                       [gen_name |-> options.bidding_generator,
                        signals |-> assemble_project_tracking_signal(hour)])
    /\ UNCHANGED <<last, hist>>

DirectAssembleScedTrackingMarketSignals ==
    /\ \E hour \in DayHours, pending \in BOOLEAN :
          DirectReturn("assemble_sced_tracking_market_signals",
                       [hour |-> hour, pending |-> pending], Here,
                       [gen_name |-> options.bidding_generator,
                        signals |-> assemble_sced_tracking_market_signals(
                                        [NoEnv EXCEPT !.pending = pending], hour)])
    /\ UNCHANGED <<last, hist>>

DirectGetFullProjectedTrajectory ==
    /\ \E failAt \in 0 .. 1 :
          LET s == get_full_projected_trajectory(Here, [NoEnv EXCEPT !.failAt = failAt])
          IN  DirectReturn("get_full_projected_trajectory", [none |-> 0], s,
                           IF s.exc = "none" THEN [trajectory |-> s.ret] ELSE None)
    /\ UNCHANGED <<last, hist>>

DirectProjectTrackingTrajectory ==
    /\ \E ruc_hour \in DayHours, failAt \in 0 .. 2 :
          LET s == project_tracking_trajectory(Here, [NoEnv EXCEPT !.failAt = failAt],
                                               ruc_hour)
          IN  DirectReturn("project_tracking_trajectory", [ruc_hour |-> ruc_hour], s,
                           IF s.exc = "none" THEN [trajectory |-> s.ret] ELSE None)
    /\ UNCHANGED <<last, hist>>

NextDirect ==
    \/ DirectAssembleProjectTrackingSignal
    \/ DirectAssembleScedTrackingMarketSignals
    \/ DirectGetFullProjectedTrajectory
    \/ DirectProjectTrackingTrajectory

SpecDirect == InitDirect /\ [][NextDirect]_vars

\* ------------------------------------------------------------ the tracker
\* The tracker the coordinator drives, over the tracking model of
\* tests/test_tracker.py (TestingModel): one power variable P_T[t] per hour
\* of the horizon, bounded by pmin and pmax, no constraint between hours.
\* Tracking is a dispatch-following optimization: the solve leaves in P_T a
\* profile that is, hour by hour, as close to the market dispatch as the
\* bounds allow (solved here on a 10 MW grid).
pmin == 20

pmax == 100

horizon == 4

PowerGrid == {p \in pmin .. pmax : p % 10 = 0}

\* Market dispatches offered to the tracker: inside the bounds and outside.
DispatchLevels == {10, 30, 40, 50, 70, 110}

Abs(x) == IF x < 0 THEN -x ELSE x

\* The cheapest production whatever the dispatch: the schedule is ignored.
Mut_Tracked(d) == {pmin}

\* The values of P_T[t] that follow dispatch d best.
Tracked(d) == {p \in PowerGrid : \A q \in PowerGrid : Abs(p - d) <= Abs(q - d)}

\* The optimal profiles for the first t hours of market_dispatch.
RECURSIVE Solutions(_, _)
Solutions(market_dispatch, t) ==
    IF t = 0 THEN {<<>>}
    ELSE {Append(P, p) : P \in Solutions(market_dispatch, t - 1),
                         p \in Tracked(market_dispatch[t])}

track_market_dispatch(market_dispatch) == Solutions(market_dispatch, horizon)

\* TestingModel.get_last_delivered_power: P_T at the step (counted from 0).
get_last_delivered_power(P_T, last_implemented_time_step) ==
    P_T[last_implemented_time_step + 1]

\* A tracker constructed with n_tracking_hour, its model built (P_T
\* initialized to 0) and not solved yet, and the dispatch the market is
\* going to hand it; the coordinator as constructed.
InitTracker ==
    /\ registry = register_callbacks(<<>>)
    /\ options \in Options
    /\ extensions = <<>>
    /\ current_time = None
    /\ ruc_instance = FreshInstance
    /\ sced_instance = FreshInstance
    /\ observed = [g \in Gens |-> DriverLevel]
    /\ tracker = TrackerRecords(0, 0)
    /\ nbids = 0
    /\ last = [cb |-> "__init__", exc |-> "none", calls |-> <<>>,
               first_day |-> TRUE, ruc_date |-> 0, ret |-> None]
    /\ hist = HistInit
    /\ \E n \in 1 .. horizon, market_dispatch \in [1 .. horizon -> DispatchLevels] :
          direct = [method |-> "Tracker", n_tracking_hour |-> n,
                    market_dispatch |-> market_dispatch, solved |-> FALSE,
                    P_T |-> [t \in 1 .. horizon |-> 0], ret |-> None]

TrackMarketDispatch ==
    /\ \E P \in track_market_dispatch(direct.market_dispatch) :
          direct' = [direct EXCEPT !.method = "track_market_dispatch",
                                   !.solved = TRUE,
                                   !.P_T = P,
                                   !.ret = None]
    /\ UNCHANGED <<registry, options, extensions, current_time, ruc_instance,
                   sced_instance, observed, tracker, nbids, last, hist>>

GetLastDeliveredPower ==
    /\ direct' = [direct EXCEPT
                    !.method = "get_last_delivered_power",
                    !.ret = [level |-> get_last_delivered_power(
                                           direct.P_T, direct.n_tracking_hour - 1)]]
    /\ UNCHANGED <<registry, options, extensions, current_time, ruc_instance,
                   sced_instance, observed, tracker, nbids, last, hist>>

NextTracker ==
    \/ TrackMarketDispatch
    \/ GetLastDeliveredPower

SpecTracker == InitTracker /\ [][NextTracker]_vars

\* ================================================================= claims
IsBids(v) == v.kind = "bids"

CallsOf(op) == {i \in 1 .. Len(last.calls) : last.calls[i].op = op}

\* C1 (as stated): in every state of the extension dictionary, a call of
\* after_ruc_activation leaves current_bids equal to the value next_bids held
\* before the call, and next_bids None.
C1_EveryState ==
    [][last'.cb = "after_ruc_activation" =>
          /\ HasKey(extensions, "next_bids")
          /\ HasKey(extensions', "current_bids")
          /\ extensions'["current_bids"] = extensions["next_bids"]
          /\ extensions'["next_bids"] = None]_vars

\* C1 (amended): in every state of the extension dictionary that has a
\* next_bids entry (a bid set or None), a call of after_ruc_activation returns
\* and leaves current_bids equal to the value next_bids held before the call,
\* and next_bids None.
C1_Promotes ==
    [][(last'.cb = "after_ruc_activation" /\ HasKey(extensions, "next_bids")) =>
          /\ last'.exc = "none"
          /\ extensions'["current_bids"] = extensions["next_bids"]
          /\ extensions'["next_bids"] = None]_vars

C1_Witness ==
    /\ last.cb = "after_ruc_activation"
    /\ last.exc = "none"
    /\ IsBids(extensions["current_bids"])
    /\ extensions["next_bids"] = None

\* C2: in a run that follows the driver's lifecycle, every bid set that
\* stochastic_bidding returned and that has seen an activation event since
\* was made current_bids by an activation event, no activation event made
\* current a bid set that an earlier one had made current, and the first-day
\* bid set is current_bids from the first bid_into_DAM until the second
\* activation event.
C2_PromotedOnce ==
    hist.lifecycle =>
        /\ ~hist.twice
        /\ \A b \in 1 .. nbids : b \notin hist.awaiting => b \in hist.promoted
        /\ (nbids >= 1 /\ hist.acts <= 1) =>
               /\ HasKey(extensions, "current_bids")
               /\ IsBids(extensions["current_bids"])
               /\ extensions["current_bids"].serial = 1

C2_Witness ==
    /\ hist.lifecycle
    /\ hist.acts = 2
    /\ 1 \in hist.promoted
    /\ extensions["current_bids"] = None

\* C3: once initialize_bidding_object and initialize_tracking_object have
\* run, plugin_objects holds exactly the entries bidder -> self.bidder and
\* tracker -> self.tracker, in every later state, whatever callback runs.
C3_OneBidderOneTracker ==
    {"bidder", "tracker"} \subseteq hist.ranInit =>
        /\ HasKey(extensions, "plugin_objects")
        /\ Len(extensions["plugin_objects"]) = 2
        /\ OKeys(extensions["plugin_objects"]) = {"bidder", "tracker"}
        /\ OGet(extensions["plugin_objects"], "bidder") = self_bidder
        /\ OGet(extensions["plugin_objects"], "tracker") = self_tracker

C3_Witness ==
    /\ {"bidder", "tracker"} \subseteq hist.ranInit
    /\ last.cb = "write_plugin_results"
    /\ HasKey(extensions, "next_bids")
    /\ extensions["next_bids"] = None

\* The six hooks that take one callback each, and the registrations at a hook.
HookCallbacks ==
    << Reg("before_ruc_solve", "bid_into_DAM"),
       Reg("before_operations_solve", "bid_into_RTM"),
       Reg("after_operations", "track_sced_signal"),
       Reg("update_operations_stats", "update_observed_thermal_dispatch"),
       Reg("after_ruc_activation", "after_ruc_activation"),
       Reg("after_simulation", "write_plugin_results") >>

AtHook(hook) == {i \in 1 .. Len(registry) : registry[i].hook = hook}

\* C4: after construction the registrations are, in this order: the
\* command-line options, then the three initialization callbacks
\* (initialize_customized_results, initialize_bidding_object,
\* initialize_tracking_object), then one callback at each of the six other
\* hooks; every option precedes every callback.
C4_Registrations ==
    /\ \A i \in AtHook("commandline_option"), j \in 1 .. Len(registry) :
          registry[j].hook # "commandline_option" => i < j
    /\ Cardinality(AtHook("initialization")) = 3
    /\ \E i \in 1 .. Len(registry) - 2 :
          /\ registry[i] = Reg("initialization", "initialize_customized_results")
          /\ registry[i + 1] = Reg("initialization", "initialize_bidding_object")
          /\ registry[i + 2] = Reg("initialization", "initialize_tracking_object")
    /\ \A k \in 1 .. Len(HookCallbacks) :
          /\ Cardinality(AtHook(HookCallbacks[k].hook)) = 1
          /\ \A i \in AtHook(HookCallbacks[k].hook) : registry[i] = HookCallbacks[k]

C4_Witness ==
    /\ last.cb = "__init__"
    /\ Cardinality(AtHook("commandline_option")) = Len(OptionDests)
    /\ Len(registry) = Len(OptionDests) + 3 + Len(HookCallbacks)

\* C5: every bid_into_DAM invocation (its dictionary lookups and the bidder
\* not failing) calls bidder.stochastic_bidding exactly once, with ruc_date,
\* and stores the result in next_bids; no other callback calls
\* stochastic_bidding.
C5_BidsOncePerDAM ==
    /\ (last.cb = "bid_into_DAM" /\ last.exc \notin {"KeyError", "CollaboratorError"}) =>
          /\ Cardinality(CallsOf("stochastic_bidding")) = 1
          /\ \A i \in CallsOf("stochastic_bidding") :
                /\ last.calls[i].target = self_bidder
                /\ last.calls[i].arg = [date |-> last.ruc_date]
          /\ HasKey(extensions, "next_bids")
          /\ IsBids(extensions["next_bids"])
          /\ extensions["next_bids"].serial = nbids
    /\ last.cb # "bid_into_DAM" => CallsOf("stochastic_bidding") = {}

\* C6: every track_sced_signal invocation (the clock set, the tracker stored
\* and not failing) calls tracker.pass_schedule_to_track exactly once, on
\* tracker.model, with last_implemented_time_step = 0, the clock's date and
\* hour and the market signals assembled for that hour.
C6_TracksOncePerInterval ==
    (/\ last.cb = "track_sced_signal"
     /\ last.exc \notin {"AttributeError", "KeyError", "CollaboratorError"}) =>
        /\ Len(last.calls) = 1
        /\ last.calls[1].op = "pass_schedule_to_track"
        /\ last.calls[1].target = self_tracker
        /\ \E pending \in BOOLEAN :
              last.calls[1].arg =
                  [m |-> "model",
                   market_signals |->
                       assemble_sced_tracking_market_signals(
                           [NoEnv EXCEPT !.pending = pending], current_time.hour),
                   last_implemented_time_step |-> 0,
                   date |-> current_time.date, hour |-> current_time.hour]

\* C7: after bid_into_DAM has generated bids, the bidding generator's p_cost
\* in the RUC instance is a time series of options.ruc_horizon piecewise cost
\* curves, curve t holding the (power, cost) pairs of bids[t][generator], and
\* every other generator keeps its p_cost.
C7_BidsReachDAM ==
    (last.cb = "bid_into_DAM" /\ CallsOf("stochastic_bidding") # {}
        /\ last.exc # "CollaboratorError") =>
        /\ IsBids(extensions["next_bids"])
        /\ \A g \in Gens :
              ruc_instance[g].p_cost =
                  IF g = options.bidding_generator
                  THEN [data_type |-> "time_series",
                        values |-> [i \in 1 .. options.ruc_horizon |->
                                       CostCurve(DictItems(
                                           BidCurve(extensions["next_bids"], i - 1, g)))]]
                  ELSE DriverCost(g)

\* C8: a bid_into_RTM call made with the clock set and a bid set in
\* current_bids leaves the bidding generator's p_cost in the SCED instance one
\* piecewise cost curve with the (power, cost) pairs of
\* current_bids[hour][generator], and current_bids and next_bids as they were.
C8_BidsReachRTM ==
    [][(/\ last'.cb = "bid_into_RTM"
        /\ current_time # None
        /\ HasKey(extensions, "current_bids")
        /\ IsBids(extensions["current_bids"])) =>
          /\ sced_instance'[options.bidding_generator].p_cost =
                 CostCurve(DictItems(BidCurve(extensions["current_bids"],
                                              current_time.hour,
                                              options.bidding_generator)))
          /\ extensions' = extensions]_vars

\* C9: a write_plugin_results call leaves the extension dictionary as it
\* was, and when it returns it has called write_results(path =
\* options.output_directory) exactly once on every object stored in
\* plugin_objects, in the order stored, and nothing else.
C9_FinalWrite ==
    [][last'.cb = "write_plugin_results" =>
          /\ extensions' = extensions
          /\ last'.exc = "none" =>
                last'.calls =
                    [i \in 1 .. Len(extensions["plugin_objects"]) |->
                        [target |-> extensions["plugin_objects"][i][2],
                         op |-> "write_results",
                         arg |-> [path |-> options.output_directory],
                         raised |-> FALSE]]]_vars

C9_Witness ==
    /\ last.cb = "write_plugin_results"
    /\ last.exc = "none"
    /\ {last.calls[i].target : i \in 1 .. Len(last.calls)} = {self_bidder, self_tracker}
    /\ HasKey(extensions, "current_bids")
    /\ IsBids(extensions["current_bids"])

\* C10: a collaborator call that raises is the last call of its callback
\* invocation and the invocation ends with that failure; an invocation that
\* ends with a collaborator's failure or a KeyError has stored nothing, and
\* one that ends with a KeyError has called no collaborator.
C10_ErrorsPropagate ==
    [][/\ \A i \in 1 .. Len(last'.calls) :
             last'.calls[i].raised =>
                 (i = Len(last'.calls) /\ last'.exc = "CollaboratorError")
       /\ last'.exc = "CollaboratorError" =>
             (last'.calls # <<>> /\ last'.calls[Len(last'.calls)].raised)
       /\ last'.exc \in {"CollaboratorError", "KeyError"} =>
             UNCHANGED <<extensions, observed, nbids, ruc_instance, sced_instance>>
       /\ last'.exc = "KeyError" => last'.calls = <<>>]_vars

C10_Witness ==
    /\ last.cb = "bid_into_DAM"
    /\ last.exc = "CollaboratorError"
    /\ last.calls = << [target |-> self_bidder, op |-> "stochastic_bidding",
                        arg |-> [date |-> last.ruc_date], raised |-> TRUE] >>
    /\ ~HasKey(extensions, "next_bids")

\* C13: a bid_into_DAM invocation (its dictionary lookups and the bidder not
\* failing) stores the newly generated bid set: before the first time step
\* (current_time is None) as both current_bids and next_bids, afterwards as
\* next_bids only, current_bids keeping the value it had.
C13_FirstDayBranch ==
    [][(last'.cb = "bid_into_DAM" /\ last'.exc \notin {"KeyError", "CollaboratorError"}) =>
          IF nbids' # nbids + 1 \/ ~HasKey(extensions', "next_bids") THEN FALSE
          ELSE /\ extensions'["next_bids"] = NewBids(nbids', extensions'["next_bids"].content)
               /\ IF current_time = None
                  THEN IF HasKey(extensions', "current_bids")
                       THEN extensions'["current_bids"] = extensions'["next_bids"]
                       ELSE FALSE
                  ELSE IF HasKey(extensions, "current_bids")
                       THEN IF HasKey(extensions', "current_bids")
                            THEN extensions'["current_bids"] = extensions["current_bids"]
                            ELSE FALSE
                       ELSE ~HasKey(extensions', "current_bids")]_vars

\* C14: a bid_into_DAM invocation after the first time step (lookups and
\* collaborators not failing) first projects the tracking trajectory (clone,
\* schedules, clear_projection), then calls bidder.update_model exactly once
\* with the three series of the trajectory, then stochastic_bidding; an
\* invocation before the first time step projects nothing and does not call
\* update_model.
C14_CallOrder ==
    (last.cb = "bid_into_DAM" /\ last.exc \notin {"KeyError", "CollaboratorError"}) =>
        IF last.first_day
        THEN /\ CallsOf("update_model") = {}
             /\ CallsOf("clone_tracking_model") = {}
             /\ CallsOf("pass_schedule_to_track") = {}
             /\ CallsOf("clear_projection") = {}
        ELSE /\ Cardinality(CallsOf("update_model")) = 1
             /\ Cardinality(CallsOf("clone_tracking_model")) = 1
             /\ Cardinality(CallsOf("clear_projection")) = 1
             /\ Cardinality(CallsOf("stochastic_bidding")) = 1
             /\ \A u \in CallsOf("update_model") :
                   /\ last.calls[u].target = self_bidder
                   /\ DOMAIN last.calls[u].arg =
                         {"implemented_power_output", "implemented_shut_down",
                          "implemented_start_up"}
                   /\ \A p \in CallsOf("clone_tracking_model")
                               \cup CallsOf("pass_schedule_to_track")
                               \cup CallsOf("clear_projection") : p < u
                   /\ \A b \in CallsOf("stochastic_bidding") : u < b

\* C19: update_observed_thermal_dispatch, when it returns, has called
\* tracker.get_last_delivered_power exactly once, with generator = the
\* bidding generator, and has stored the value returned as that generator's
\* observed dispatch level; the levels of the other generators, the
\* extension dictionary with its bid sets and the market instances are as
\* before.  When it raises instead, it has stored nothing.
C19_ObservedDispatch ==
    [][last'.cb = "update_observed_thermal_dispatch" =>
          LET g == options.bidding_generator
          IN  IF last'.exc = "none"
              THEN /\ last'.calls = << [target |-> self_tracker,
                                        op |-> "get_last_delivered_power",
                                        arg |-> [generator |-> g], raised |-> FALSE] >>
                   /\ DOMAIN observed' = DOMAIN observed
                   /\ observed'[g] = last'.ret.level
                   /\ \A h \in DOMAIN observed \ {g} : observed'[h] = observed[h]
                   /\ UNCHANGED <<extensions, nbids, ruc_instance, sced_instance>>
              ELSE UNCHANGED <<observed, extensions, nbids, ruc_instance,
                               sced_instance>>]_vars

C19_Witness ==
    /\ last.cb = "update_observed_thermal_dispatch"
    /\ last.exc = "none"
    /\ last.ret = [level |-> 1]
    /\ observed[options.bidding_generator] = 1
    /\ \E h \in Gens : h # options.bidding_generator /\ observed[h] = DriverLevel
    /\ HasKey(extensions, "next_bids")

\* C20: initialize_customized_results leaves extensions['customized_results']
\* a dictionary of exactly the seven result columns, each an empty list,
\* whatever was stored there; every other entry of the extension dictionary
\* (plugin_objects, current_bids, next_bids) is as before; it calls no
\* collaborator, and running it again on the result changes nothing.
C20_CustomizedResults ==
    [][last'.cb = "initialize_customized_results" =>
          /\ last'.exc = "none"
          /\ last'.calls = <<>>
          /\ DOMAIN extensions' = DOMAIN extensions \cup {"customized_results"}
          /\ DOMAIN extensions'["customized_results"] =
                {"Generator", "Date", "Hour", "State", "RUC Schedule",
                 "SCED Schedule", "Power Output"}
          /\ \A k \in DOMAIN extensions'["customized_results"] :
                extensions'["customized_results"][k] = <<>>
          /\ \A k \in DOMAIN extensions \ {"customized_results"} :
                extensions'[k] = extensions[k]
          /\ initialize_customized_results([ext |-> extensions']).ext = extensions'
          /\ UNCHANGED <<nbids, observed, ruc_instance, sced_instance, tracker>>]_vars

C20_Witness ==
    /\ last.cb = "initialize_customized_results"
    /\ HasPlugin(extensions, "bidder")
    /\ HasPlugin(extensions, "tracker")
    /\ HasKey(extensions, "next_bids")
    /\ IsBids(extensions["next_bids"])
    /\ Cardinality(DOMAIN extensions["customized_results"]) = 7

\* Indices of the calls of method op in the last direct call.
DirectCallsOf(op) == {i \in 1 .. Len(direct.calls) : direct.calls[i].op = op}

Min(a, b) == IF a <= b THEN a ELSE b

\* C15: project_tracking_trajectory(ruc_hour), for ruc_hour in 0..23 (the
\* tracker stored and not failing), clones the tracking model once and then
\* calls tracker.pass_schedule_to_track exactly 24 - ruc_hour times, for the
\* hours ruc_hour..23 in ascending order, each on the clone with
\* projection = True and last_implemented_time_step = 0.
C15_ProjectionSchedule ==
    (/\ direct.method = "project_tracking_trajectory"
     /\ direct.exc \notin {"KeyError", "CollaboratorError"}) =>
        LET n == HoursPerDay - direct.args.ruc_hour
        IN  IF Len(direct.calls) < n + 1 THEN FALSE
            ELSE /\ direct.calls[1].op = "clone_tracking_model"
                 /\ Cardinality(DirectCallsOf("clone_tracking_model")) = 1
                 /\ Cardinality(DirectCallsOf("pass_schedule_to_track")) = n
                 /\ \A k \in 1 .. n :
                       /\ direct.calls[k + 1].op = "pass_schedule_to_track"
                       /\ direct.calls[k + 1].target = self_tracker
                       /\ direct.calls[k + 1].arg.m = "clone"
                       /\ direct.calls[k + 1].arg.hour = direct.args.ruc_hour + k - 1
                       /\ direct.calls[k + 1].arg.projection = TRUE
                       /\ direct.calls[k + 1].arg.last_implemented_time_step = 0

\* C16: get_full_projected_trajectory, when it returns, returns for every
\* statistic of tracker.daily_stats the bidding generator's daily_stats
\* entries followed by its projection entries, as they were when the call
\* was made, and has called tracker.clear_projection exactly once (the
\* projection it clears is the one already merged).
C16_FullTrajectory ==
    [][(direct'.method = "get_full_projected_trajectory" /\ direct'.exc = "none") =>
          LET g == options.bidding_generator
              full == direct'.ret.trajectory
          IN  /\ DOMAIN full = DOMAIN tracker.daily_stats
              /\ \A stat \in DOMAIN tracker.daily_stats :
                    LET d == tracker.daily_stats[stat][g]
                        p == tracker.projection[stat][g]
                    IN  /\ DOMAIN full[stat] = {g}
                        /\ Len(full[stat][g]) = Len(d) + Len(p)
                        /\ \A i \in 1 .. Len(d) : full[stat][g][i] = d[i]
                        /\ \A i \in 1 .. Len(p) : full[stat][g][Len(d) + i] = p[i]
              /\ direct'.calls = << [target |-> self_tracker, op |-> "clear_projection",
                                     arg |-> [none |-> 0], raised |-> FALSE] >>]_vars

C16_Witness ==
    /\ direct.method = "get_full_projected_trajectory"
    /\ direct.exc = "none"
    /\ Len(tracker.daily_stats["power"][options.bidding_generator]) > 0
    /\ Len(direct.ret.trajectory["power"][options.bidding_generator])
          > Len(tracker.daily_stats["power"][options.bidding_generator])
    /\ Len(direct.calls) = 1

\* C17: assemble_sced_tracking_market_signals(hour) returns sced_horizon
\* signals (sced_horizon >= 1): the first is the SCED dispatch of index 0;
\* the one for a later hour t in hour+1 .. hour+sced_horizon-1 is the active
\* RUC dispatch at (generator, t) when t <= 23, the pending RUC dispatch at
\* (generator, t mod 24) when t > 23 and a pending RUC exists, and the SCED
\* dispatch of index t - hour when t > 23 and no RUC is pending.
C17_ScedSignals ==
    direct.method = "assemble_sced_tracking_market_signals" =>
        LET g == options.bidding_generator
            hour == direct.args.hour
            sig == direct.ret.signals
        IN  /\ options.sced_horizon >= 1
            /\ Len(sig) = options.sced_horizon
            /\ direct.ret.gen_name = g
            /\ sig[1] = ScedDispatch(g, 0)
            /\ \A t \in hour + 1 .. hour + options.sced_horizon - 1 :
                  sig[t - hour + 1] =
                     IF t <= 23 THEN RucDispatch("active", g, t)
                     ELSE IF direct.args.pending
                          THEN RucDispatch("pending", g, t % HoursPerDay)
                          ELSE ScedDispatch(g, t - hour)

C17_Witness ==
    /\ direct.method = "assemble_sced_tracking_market_signals"
    /\ direct.args = [hour |-> 22, pending |-> TRUE]
    /\ options.bidding_generator = "G1"
    /\ direct.ret.signals = << ScedDispatch("G1", 0), RucDispatch("active", "G1", 23),
                               RucDispatch("pending", "G1", 0) >>

\* C18: assemble_project_tracking_signal(hour) returns exactly sced_horizon
\* signals, the i-th (i from 0) being the active RUC dispatch at
\* (generator, min(hour + i, 23)).
C18_ProjectSignals ==
    direct.method = "assemble_project_tracking_signal" =>
        LET g == options.bidding_generator
            sig == direct.ret.signals
        IN  /\ Len(sig) = options.sced_horizon
            /\ direct.ret.gen_name = g
            /\ \A i \in 0 .. options.sced_horizon - 1 :
                  sig[i + 1] = RucDispatch("active", g, Min(direct.args.hour + i, 23))

C18_Witness ==
    /\ direct.method = "assemble_project_tracking_signal"
    /\ direct.args = [hour |-> 22]
    /\ options.bidding_generator = "G2"
    /\ direct.ret.signals = << RucDispatch("active", "G2", 22),
                               RucDispatch("active", "G2", 23),
                               RucDispatch("active", "G2", 23) >>

DictOf(od) == [k \in OKeys(od) |-> OGet(od, k)]

\* C21: from every extension state the run reaches, initialize_bidding_object
\* and initialize_tracking_object run in either order, once or repeatedly,
\* leave plugin_objects the same dictionary (equal keys and values), holding
\* the bidder under 'bidder' and the tracker under 'tracker'; each is
\* idempotent, and neither touches any other entry of the extensions.
C21_InitCommute ==
    LET Bid(e) == initialize_bidding_object([ext |-> e]).ext
        Trk(e) == initialize_tracking_object([ext |-> e]).ext
        Plugins(e) == DictOf(e["plugin_objects"])
        both == [k \in {"bidder", "tracker"} |->
                    IF k = "bidder" THEN self_bidder ELSE self_tracker]
    IN  /\ Plugins(Bid(Trk(extensions))) = Plugins(Trk(Bid(extensions)))
        /\ Plugins(Bid(Trk(extensions))) = both
        /\ Bid(Bid(extensions)) = Bid(extensions)
        /\ Trk(Trk(extensions)) = Trk(extensions)
        /\ Plugins(Bid(Trk(Bid(Trk(extensions))))) = both
        /\ Plugins(Trk(Trk(Bid(Bid(extensions))))) = both
        /\ HasPlugin(extensions, "tracker") =>
              /\ HasPlugin(Bid(extensions), "tracker")
              /\ OGet(Bid(extensions)["plugin_objects"], "tracker")
                    = OGet(extensions["plugin_objects"], "tracker")
        /\ HasPlugin(extensions, "bidder") =>
              /\ HasPlugin(Trk(extensions), "bidder")
              /\ OGet(Trk(extensions)["plugin_objects"], "bidder")
                    = OGet(extensions["plugin_objects"], "bidder")
        /\ \A k \in DOMAIN extensions \ {"plugin_objects"} :
              Bid(extensions)[k] = extensions[k] /\ Trk(extensions)[k] = extensions[k]

C21_Witness ==
    /\ last.cb = "initialize_bidding_object"
    /\ HasKey(extensions, "plugin_objects")
    /\ extensions["plugin_objects"] =
          << <<"tracker", self_tracker>>, <<"bidder", self_bidder>> >>
    /\ HasKey(extensions, "next_bids")

\* C22: in a run that follows the driver's lifecycle (bidder and tracker
\* initialized first; a first-day bid_into_DAM that generated its bids; then
\* exactly one bid_into_DAM before every after_ruc_activation), at every
\* bid_into_RTM invocation after the first activation current_bids is
\* present and a bid set, not None.
C22_CurrentBidsAtRTM ==
    (/\ last.cb = "bid_into_RTM"
     /\ hist.lifecycle
     /\ nbids >= 1
     /\ hist.acts >= 1) =>
        IF HasKey(extensions, "current_bids")
        THEN IsBids(extensions["current_bids"])
        ELSE FALSE

\* C23: in a run that follows the driver's lifecycle, a bid_into_RTM between
\* a bid_into_DAM of a later day and the activation that follows it submits
\* to the SCED instance the cost curve of the bid set an activation had made
\* current before that bid_into_DAM, not that of a bid set generated since.
C23_NoLeakIntoRTM ==
    [][(/\ last'.cb = "bid_into_RTM"
        /\ hist.lifecycle
        /\ nbids >= 1
        /\ hist.acts >= 1
        /\ hist.sinceAct = 1
        /\ current_time # None) =>
          IF HasKey(extensions, "current_bids")
          THEN IF IsBids(extensions["current_bids"])
               THEN /\ extensions["current_bids"].serial \in hist.promoted
                    /\ extensions["current_bids"].serial \notin hist.awaiting
                    /\ sced_instance'[options.bidding_generator].p_cost =
                          CostCurve(DictItems(BidCurve(extensions["current_bids"],
                                                       current_time.hour,
                                                       options.bidding_generator)))
               ELSE FALSE
          ELSE FALSE]_vars

====
